---- MODULE Spec2Model ----
(***************************************************************************)
(* The conversational RAG pipeline (a LangGraph StateGraph with a          *)
(* MemorySaver checkpointer): one DialogState per invocation, routed       *)
(* through rephrase_query, classify_topic, fetch_docs, evaluate_docs,      *)
(* tweak_question and the three terminal nodes, with the conversation      *)
(* history kept per thread_id.                                             *)
(***************************************************************************)
EXTENDS Integers, Sequences, FiniteSets, TLC

\* ------------------------------------------------------------- bounds
\* Invocations started over the whole run (caps the length of the histories).
MaxInvocations == 2

\* ---------------------------------------------------- program constants
\* "No docs & attempts < 2" / "attempts >= 2": the hardcoded retry bound.
MaxAttempts == 2
\* Top-k documents per query.
K == 2

\* ------------------------------------------------------ input universes
\* Independent threads of control that call process_question.
Callers == {"t1", "t2"}
\* thread_id values.
ThreadIds == {"A", "B"}
NoThread == "none"
\* A text is a sequence of tokens; " " is whitespace.
Questions == {<<"q", " ">>}
\* Raw outputs of the text-generation capability for a rewrite.
RephraseOutputs == {<<"r">>, <<" ", "r", " ">>}
TweakOutputs == {<<"t">>}
Answers == {<<"a">>}
\* The grades the documentation says the structured outputs are held to.
ClosedGrades == {"Yes", "No"}
\* Values a structured grade can take: score is declared str, so any string.
Grades == ClosedGrades \cup {"Maybe"}
\* The document store.
Docs == {"d1", "d2"}

RejectMessage == <<"I can't respond to that!">>
FallbackMessage == <<"I'm sorry, but I couldn't find the information">>

Nodes == {"rephrase_query", "classify_topic", "fetch_docs", "evaluate_docs",
          "tweak_question", "create_response", "reject_off_topic",
          "fallback_response"}
TerminalNodes == {"create_response", "reject_off_topic", "fallback_response"}

\* ------------------------------------------------------ pure functions
IsWhitespace(tok) == tok = " "

RECURSIVE LStrip(_)
LStrip(s) == IF s # <<>> /\ IsWhitespace(Head(s)) THEN LStrip(Tail(s)) ELSE s

RECURSIVE RStrip(_)
RStrip(s) ==
  IF s # <<>> /\ IsWhitespace(s[Len(s)]) THEN RStrip(SubSeq(s, 1, Len(s) - 1)) ELSE s

\* str.strip()
Strip(s) == RStrip(LStrip(s))

\* str.lower() on the grade values
Lower(g) == CASE g = "Yes" -> "yes" [] g = "No" -> "no" [] OTHER -> g

\* The sequences over S of length at most n.
SeqsUpTo(S, n) == UNION {[1..m -> S] : m \in 0..n}

\* What the retriever can return for a query: at most K entries of the store,
\* each at most once, best match first.
RetrievalResults ==
  {r \in SeqsUpTo(Docs, K) : \A i, j \in 1..Len(r) : i # j => r[i] # r[j]}

\* A message of the history.  conversation_id and invocation identify where
\* the message was authored.
Turn(role, content, c, n) ==
  [role |-> role, content |-> content, conversation_id |-> c, invocation |-> n]

\* The state container passed between the nodes.
DialogState(turns, docs, flag, query, ready, attempts, question) ==
  [turns |-> turns, retrieved_docs |-> docs, topic_flag |-> flag,
   refined_query |-> query, ready_for_response |-> ready,
   refinement_attempts |-> attempts, question |-> question]

EmptyState == DialogState(<<>>, <<>>, "", <<>>, FALSE, 0, <<>>)

\* The state an invocation starts from: the persisted turns followed by the
\* incoming question, every other field reset.
\* Variant: the retry counter of the conversation's last invocation, which is
\* MaxAttempts when that one fell back, is carried into the next.
InitialState_carries_attempts(prior, q, c, n) ==
  DialogState(prior \o <<Turn("user", q, c, n)>>, <<>>, "", <<>>, FALSE,
              IF prior # <<>> /\ prior[Len(prior)].content = FallbackMessage
                THEN MaxAttempts ELSE 0,
              q)

InitialState(prior, q, c, n) ==
  DialogState(prior \o <<Turn("user", q, c, n)>>, <<>>, "", <<>>, FALSE, 0, q)

\* Variant: the history is not loaded, every invocation starts fresh.
MemoryGet_fresh(mem, c) == <<>>

\* Conversation memory: a map from thread_id to the persisted turns.
MemoryGet(mem, c) == mem[c]

\* Variant: one history shared by every thread_id.
MemoryPut_shared(mem, c, turns) == [k \in DOMAIN mem |-> turns]

\* Variant: the list is written short of its last turn.
MemoryPut_partial(mem, c, turns) ==
  [mem EXCEPT ![c] = SubSeq(turns, 1, Len(turns) - 1)]

MemoryPut(mem, c, turns) == [mem EXCEPT ![c] = turns]

\* Variant: the current question alone counts as history.
has_history_off_by_one(s) == Len(s.turns) > 0

\* if len(state["turns"]) > 1: turns holds more than the current question.
has_history(s) == Len(s.turns) > 1

\* Variant: the current question is passed along with the history.
rephrase_prompt_whole_turns(s) == [history |-> s.turns, question |-> s.question]

\* What rephrase_query passes to the capability: the turns before the current
\* question, then the current question.
rephrase_prompt(s) ==
  [history |-> SubSeq(s.turns, 1, Len(s.turns) - 1), question |-> s.question]

\* rephrase_query: out is the capability's raw output (used only with history).
rephrase_query(s, out) ==
  IF has_history(s)
    THEN [s EXCEPT !.refined_query = Strip(out)]
    ELSE [s EXCEPT !.refined_query = s.question]

classify_topic(s, score) == [s EXCEPT !.topic_flag = score]

\* Variant: the flag is not consulted.
topic_router_ignores_flag(s) == "fetch_docs"

topic_router(s) ==
  IF Lower(s.topic_flag) = "yes" THEN "fetch_docs" ELSE "reject_off_topic"

\* Variant: the documents found are added to the ones already held.
fetch_docs_appends(s, found) == [s EXCEPT !.retrieved_docs = s.retrieved_docs \o found]

fetch_docs(s, found) == [s EXCEPT !.retrieved_docs = found]

\* Variant: each relevant document is put in front of the ones kept so far.
RECURSIVE Relevant_reversed(_, _)
Relevant_reversed(docs, scores) ==
  IF docs = <<>> THEN <<>>
  ELSE Relevant_reversed(Tail(docs), Tail(scores))
         \o (IF Lower(Head(scores)) = "yes" THEN <<Head(docs)>> ELSE <<>>)

\* The documents of docs whose grade is "yes", in the order of docs.
RECURSIVE Relevant(_, _)
Relevant(docs, scores) ==
  IF docs = <<>> THEN <<>>
  ELSE (IF Lower(Head(scores)) = "yes" THEN <<Head(docs)>> ELSE <<>>)
         \o Relevant(Tail(docs), Tail(scores))

\* Variant: the flag is left as it was.
evaluate_docs_stale_flag(s, scores) ==
  [s EXCEPT !.retrieved_docs = Relevant(s.retrieved_docs, scores)]

\* Variant: the flag is set whether or not a document was kept.
evaluate_docs_always_ready(s, scores) ==
  LET relevant == Relevant(s.retrieved_docs, scores)
  IN [s EXCEPT !.retrieved_docs = relevant,
               !.ready_for_response = Len(relevant) >= 0]

evaluate_docs(s, scores) ==
  LET relevant == Relevant(s.retrieved_docs, scores)
  IN [s EXCEPT !.retrieved_docs = relevant,
               !.ready_for_response = Len(relevant) > 0]

\* Variant: the retry test is off by one.
\* Variant: gives up one retry early.
decision_router_gives_up_early(s) ==
  IF s.ready_for_response THEN "create_response"
  ELSE IF s.refinement_attempts < MaxAttempts - 1 THEN "tweak_question"
  ELSE "fallback_response"

\* Variant: the retry bound is tested before the readiness flag.
decision_router_fallback_first(s) ==
  IF s.refinement_attempts >= MaxAttempts THEN "fallback_response"
  ELSE IF s.ready_for_response THEN "create_response"
  ELSE "tweak_question"

decision_router_off_by_one(s) ==
  IF s.ready_for_response THEN "create_response"
  ELSE IF s.refinement_attempts <= MaxAttempts THEN "tweak_question"
  ELSE "fallback_response"

decision_router(s) ==
  IF s.ready_for_response THEN "create_response"
  ELSE IF s.refinement_attempts < MaxAttempts THEN "tweak_question"
  ELSE "fallback_response"

\* Variant: the tweaked question is classified again.
edge_tweak_reclassifies(node) ==
  CASE node = "rephrase_query" -> "classify_topic"
    [] node = "fetch_docs" -> "evaluate_docs"
    [] node = "tweak_question" -> "classify_topic"

\* Variant: the rephrased question goes to retrieval unclassified.
edge_skips_classify(node) ==
  CASE node = "rephrase_query" -> "fetch_docs"
    [] node = "fetch_docs" -> "evaluate_docs"
    [] node = "tweak_question" -> "fetch_docs"

\* The unconditional edges of the graph.
edge(node) ==
  CASE node = "rephrase_query" -> "classify_topic"
    [] node = "fetch_docs" -> "evaluate_docs"
    [] node = "tweak_question" -> "fetch_docs"

\* Variant: the counter is not incremented.
tweak_question_no_increment(s, out) == [s EXCEPT !.refined_query = out]

tweak_question(s, out) ==
  [s EXCEPT !.refinement_attempts = s.refinement_attempts + 1,
            !.refined_query = out]

\* Variant: the assistant turn replaces the history.
Append_assistant_overwrites(s, content) ==
  LET last == s.turns[Len(s.turns)]
  IN [s EXCEPT !.turns =
        <<Turn("assistant", content, last.conversation_id, last.invocation)>>]

\* The terminal nodes append the assistant turn.
Append_assistant(s, content) ==
  LET last == s.turns[Len(s.turns)]
  IN [s EXCEPT !.turns =
        Append(s.turns, Turn("assistant", content, last.conversation_id, last.invocation))]

create_response(s, answer) == Append_assistant(s, answer)

reject_off_topic(s) == Append_assistant(s, RejectMessage)

\* Variant: the fallback message quotes the query that found nothing.
fallback_response_quotes_query(s) ==
  Append_assistant(s, FallbackMessage \o s.refined_query)

fallback_response(s) == Append_assistant(s, FallbackMessage)

\* The retriever-call count of an invocation; it stops counting one past the
\* most calls the retry bound allows.
CallsCap == MaxAttempts + 2

CountCall(n) == IF n < CallsCap THEN n + 1 ELSE n

\* ------------------------------------------------------------- state
VARIABLES
  pc,              \* per caller: "idle", the node about to run, "END" or "failed"
  thread_id,       \* per caller: the thread_id of its invocation
  state,           \* per caller: the DialogState of its invocation
  memory,          \* thread_id -> persisted turns
  result,          \* per caller: what process_question returned
  invocations,     \* invocations started so far
  invocation,      \* per caller: the number of its invocation (0 when idle)
  baseline,        \* per caller: the turns loaded when the invocation started
  fetched,         \* per caller: what fetch_docs returned in the cycle being evaluated
  judged,          \* per caller: the grades evaluate_docs got for fetched, in its order
  retrieval_calls, \* per caller: retriever calls made by the invocation
  committed,       \* thread_id -> the turn lists put so far, oldest first
  trace,           \* per caller: the nodes its invocation has run, in order
  last_call        \* per caller: the capability calls of the node run last

\* The web client (frontend/src): the router, the chat store, the Dashboard
\* page and the Papers page.
VARIABLES
  isAuthenticated, \* useAuthStore: the user is signed in
  location,        \* the router's current path
  redirected,      \* the paths the router left by <Navigate> since the last request
  chat,            \* useChatStore: the fields of the chat store
  input,           \* Dashboard useState: the text of the input box
  isLoading,       \* Dashboard useState: a send is under way
  sends,           \* handleSend calls that passed the guard so far
  inflight,        \* the handleSend calls suspended in an await
  toggled,         \* paper id -> togglePaperSelection calls since the selection was empty, mod 2
  uploadingFiles,  \* Papers useState: the names shown as uploading
  drops,           \* the onDrop calls that have not returned
  last             \* the handler that ran last and its outcome

pipeline == <<pc, thread_id, state, memory, result, invocations, invocation, baseline,
              fetched, judged, retrieval_calls, committed, trace, last_call>>

frontend == <<isAuthenticated, location, redirected, chat, input, isLoading, sends,
              inflight, toggled, uploadingFiles, drops, last>>

vars == <<pipeline, frontend>>

\* The trace stops growing past the longest path the retry bound allows.
TraceCap == 3 * (MaxAttempts + 2) + 3

NoPrompt == [history |-> <<>>, question |-> <<>>]

NoCall == [generation |-> 0, retrieval |-> 0, prompt |-> NoPrompt]

\* Caller t has run node, which made the given numbers of text-generation and
\* retrieval calls.
Ran(t, node, generation, retrieval, prompt) ==
  /\ trace' = [trace EXCEPT ![t] = IF Len(@) < TraceCap THEN Append(@, node) ELSE @]
  /\ last_call' = [last_call EXCEPT ![t] =
       [generation |-> generation, retrieval |-> retrieval, prompt |-> prompt]]

NoResult == [status |-> "none", turns |-> <<>>]

\* ------------------------------------------------------------ web client: data
\* Bounds of the client model.
MaxSends == 2

MaxDrops == 2

\* The paths a request can name; "/other" stands for every path no route names.
Paths == {"/login", "/register", "/", "/dashboard", "/papers", "/other"}

\* What the input box can hold.
Inputs == {<<>>, <<" ">>, <<" ", "m">>}

ConversationIds == {"c1"}

PaperIds == {"p1", "p2"}

\* The papers the list query can return: a refetch can bring a paper with the
\* same id and changed fields.
PaperList ==
  {[id |-> "p1", title |-> "x"], [id |-> "p1", title |-> "y"],
   [id |-> "p2", title |-> "x"]}

FileNames == {"a.pdf", "b.pdf"}

\* The file lists a drop can bring, by name; none when every file was refused.
AcceptedFiles == {<<>>, <<"a.pdf">>, <<"a.pdf", "b.pdf">>, <<"b.pdf", "a.pdf">>}

\* A value that may be null: <<>> is null, <<v>> holds v.
Null == <<>>

Some(v) == <<v>>

\* String.prototype.trim.
trim(s) == Strip(s)

\* Array.prototype.slice(from, to) for from >= 0; a negative to counts from the end.
slice(s, from, to) ==
  LET n == Len(s)
      e == IF to < 0 THEN (IF n + to < 0 THEN 0 ELSE n + to)
                     ELSE (IF to > n THEN n ELSE to)
  IN SubSeq(s, from + 1, e)

\* types/index.ts; the fields no handler reads (user_id, title, citations and
\* the timestamps) are left out.
Message(id, conversation_id, role, content) ==
  [id |-> id, conversation_id |-> conversation_id, role |-> role, content |-> content]

Conversation(id, messages) == [id |-> id, messages |-> messages]

\* ------------------------------------------------------------ web client: routes
Page(name) == [kind |-> "page", target |-> name]

Navigate(to) == [kind |-> "navigate", target |-> to]

\* Variant: the signed-out visitor is sent to the root route.
ProtectedRoute_to_root(authenticated, children) ==
  IF ~authenticated THEN Navigate("/") ELSE children

ProtectedRoute(authenticated, children) ==
  IF ~authenticated THEN Navigate("/login") ELSE children

PublicRoute(authenticated, children) ==
  IF authenticated THEN Navigate("/dashboard") ELSE children

Layout(authenticated, outlet) ==
  IF ~authenticated THEN Navigate("/login") ELSE outlet

\* <Routes>: the element the router renders for a path.
Routes(authenticated, path) ==
  CASE path = "/login" -> PublicRoute(authenticated, Page("Login"))
    [] path = "/register" -> PublicRoute(authenticated, Page("Register"))
    [] path = "/" ->
         ProtectedRoute(authenticated, Layout(authenticated, Navigate("/dashboard")))
    [] path = "/dashboard" ->
         ProtectedRoute(authenticated, Layout(authenticated, Page("Dashboard")))
    [] path = "/papers" ->
         ProtectedRoute(authenticated, Layout(authenticated, Page("Papers")))
    [] OTHER -> Navigate("/")

\* The page on screen, "none" while the router is redirecting.
Rendered(authenticated, path) ==
  LET element == Routes(authenticated, path)
  IN IF element.kind = "page" THEN element.target ELSE "none"

\* ------------------------------------------------------------ web client: chat store
InitialChat ==
  [currentConversation |-> Null, conversations |-> <<>>,
   selectedPapers |-> <<>>, isStreaming |-> FALSE]

setCurrentConversation(s, conversation) ==
  [s EXCEPT !.currentConversation = conversation]

setSelectedPapers(s, papers) == [s EXCEPT !.selectedPapers = papers]

\* Variant: the paper is appended without looking for its id.
togglePaperSelection_always_appends(s, paper) ==
  [s EXCEPT !.selectedPapers = Append(@, paper)]

togglePaperSelection(s, paper) ==
  LET isSelected == \E i \in DOMAIN s.selectedPapers : s.selectedPapers[i].id = paper.id
      differs(p) == p.id # paper.id
  IN [s EXCEPT !.selectedPapers =
        IF isSelected THEN SelectSeq(@, differs) ELSE Append(@, paper)]

\* The handler that ran last: its name, the send it belongs to, its outcome.
Event(op, n, ok) == [op |-> op, n |-> n, ok |-> ok]

NoEvent == Event("none", 0, FALSE)

Init ==
  /\ pc = [t \in Callers |-> "idle"]
  /\ thread_id = [t \in Callers |-> NoThread]
  /\ state = [t \in Callers |-> EmptyState]
  /\ memory = [c \in ThreadIds |-> <<>>]
  /\ result = [t \in Callers |-> NoResult]
  /\ invocations = 0
  /\ invocation = [t \in Callers |-> 0]
  /\ baseline = [t \in Callers |-> <<>>]
  /\ fetched = [t \in Callers |-> <<>>]
  /\ judged = [t \in Callers |-> <<>>]
  /\ retrieval_calls = [t \in Callers |-> 0]
  /\ committed = [c \in ThreadIds |-> <<>>]
  /\ trace = [t \in Callers |-> <<>>]
  /\ last_call = [t \in Callers |-> NoCall]
  /\ isAuthenticated = FALSE
  /\ location = "/"
  /\ redirected = <<>>
  /\ chat = InitialChat
  /\ input = <<>>
  /\ isLoading = FALSE
  /\ sends = 0
  /\ inflight = {}
  /\ toggled = [i \in PaperIds |-> 0]
  /\ uploadingFiles = <<>>
  /\ drops = {}
  /\ last = NoEvent

\* ------------------------------------------------------------ actions
\* process_question(question, thread_id): load the history, build the state,
\* enter the graph at rephrase_query.
Invoke(t, c, q) ==
  /\ pc[t] = "idle"
  /\ invocations < MaxInvocations
  /\ invocations' = invocations + 1
  /\ invocation' = [invocation EXCEPT ![t] = invocations + 1]
  /\ LET prior == MemoryGet(memory, c)
     IN /\ baseline' = [baseline EXCEPT ![t] = prior]
        /\ state' = [state EXCEPT ![t] = InitialState(prior, q, c, invocations + 1)]
  /\ thread_id' = [thread_id EXCEPT ![t] = c]
  /\ pc' = [pc EXCEPT ![t] = "rephrase_query"]
  /\ UNCHANGED <<memory, result, fetched, judged, retrieval_calls, committed,
                 trace, last_call>>
  /\ UNCHANGED frontend

Rephrase(t) ==
  /\ pc[t] = "rephrase_query"
  /\ \E out \in RephraseOutputs :
       state' = [state EXCEPT ![t] = rephrase_query(state[t], out)]
  /\ IF has_history(state[t])
       THEN Ran(t, "rephrase_query", 1, 0, rephrase_prompt(state[t]))
       ELSE Ran(t, "rephrase_query", 0, 0, NoPrompt)
  /\ pc' = [pc EXCEPT ![t] = edge("rephrase_query")]
  /\ UNCHANGED <<thread_id, memory, result, invocations, invocation, baseline,
                 fetched, judged, retrieval_calls, committed>>
  /\ UNCHANGED frontend

Classify(t) ==
  /\ pc[t] = "classify_topic"
  /\ \E score \in Grades :
       LET s == classify_topic(state[t], score)
       IN /\ state' = [state EXCEPT ![t] = s]
          /\ pc' = [pc EXCEPT ![t] = topic_router(s)]
  /\ Ran(t, "classify_topic", 1, 0, NoPrompt)
  /\ UNCHANGED <<thread_id, memory, result, invocations, invocation, baseline,
                 fetched, judged, retrieval_calls, committed>>
  /\ UNCHANGED frontend

Retrieve(t) ==
  /\ pc[t] = "fetch_docs"
  /\ \E found \in RetrievalResults :
       /\ state' = [state EXCEPT ![t] = fetch_docs(state[t], found)]
       /\ fetched' = [fetched EXCEPT ![t] = found]
  /\ judged' = [judged EXCEPT ![t] = <<>>]
  /\ retrieval_calls' = [retrieval_calls EXCEPT ![t] = CountCall(@)]
  /\ Ran(t, "fetch_docs", 0, 1, NoPrompt)
  /\ pc' = [pc EXCEPT ![t] = edge("fetch_docs")]
  /\ UNCHANGED <<thread_id, memory, result, invocations, invocation, baseline,
                 committed>>
  /\ UNCHANGED frontend

Evaluate(t) ==
  /\ pc[t] = "evaluate_docs"
  /\ \E scores \in [1..Len(state[t].retrieved_docs) -> Grades] :
       LET s == evaluate_docs(state[t], scores)
       IN /\ state' = [state EXCEPT ![t] = s]
          /\ pc' = [pc EXCEPT ![t] = decision_router(s)]
          /\ judged' = [judged EXCEPT ![t] = scores]
  /\ Ran(t, "evaluate_docs", Len(state[t].retrieved_docs), 0, NoPrompt)
  /\ UNCHANGED <<thread_id, memory, result, invocations, invocation, baseline,
                 fetched, retrieval_calls, committed>>
  /\ UNCHANGED frontend

Tweak(t) ==
  /\ pc[t] = "tweak_question"
  /\ \E out \in TweakOutputs :
       state' = [state EXCEPT ![t] = tweak_question(state[t], out)]
  /\ Ran(t, "tweak_question", 1, 0, NoPrompt)
  /\ pc' = [pc EXCEPT ![t] = edge("tweak_question")]
  /\ fetched' = [fetched EXCEPT ![t] = <<>>]
  /\ judged' = [judged EXCEPT ![t] = <<>>]
  /\ UNCHANGED <<thread_id, memory, result, invocations, invocation, baseline,
                 retrieval_calls, committed>>
  /\ UNCHANGED frontend

\* The end of a terminal node: the final turns are persisted under the
\* invocation's thread_id and returned to the caller.
Commit(t, s) ==
  /\ state' = [state EXCEPT ![t] = s]
  /\ memory' = MemoryPut(memory, thread_id[t], s.turns)
  /\ result' = [result EXCEPT ![t] = [status |-> "ok", turns |-> s.turns]]
  /\ committed' = [committed EXCEPT ![thread_id[t]] = Append(@, s.turns)]
  /\ pc' = [pc EXCEPT ![t] = "END"]
  /\ fetched' = [fetched EXCEPT ![t] = <<>>]
  /\ judged' = [judged EXCEPT ![t] = <<>>]
  /\ UNCHANGED <<thread_id, invocations, invocation, baseline, retrieval_calls>>
  /\ UNCHANGED frontend

Respond(t) ==
  /\ pc[t] = "create_response"
  /\ \E answer \in Answers : Commit(t, create_response(state[t], answer))
  /\ Ran(t, "create_response", 1, 0, NoPrompt)

Reject(t) ==
  /\ pc[t] = "reject_off_topic"
  /\ Commit(t, reject_off_topic(state[t]))
  /\ Ran(t, "reject_off_topic", 0, 0, NoPrompt)

Fallback(t) ==
  /\ pc[t] = "fallback_response"
  /\ Commit(t, fallback_response(state[t]))
  /\ Ran(t, "fallback_response", 0, 0, NoPrompt)

\* The nodes that call a capability in the current state.
CallsCapability(t) ==
  \/ pc[t] \in {"classify_topic", "fetch_docs", "tweak_question", "create_response"}
  \/ pc[t] = "rephrase_query" /\ has_history(state[t])
  \/ pc[t] = "evaluate_docs" /\ state[t].retrieved_docs # <<>>

\* Variant: the turns held when the call raised are persisted.
CapabilityError_partial_commit(t) ==
  /\ pc[t] \in Nodes
  /\ CallsCapability(t)
  /\ pc' = [pc EXCEPT ![t] = "failed"]
  /\ result' = [result EXCEPT ![t] = [status |-> "error", turns |-> <<>>]]
  /\ memory' = MemoryPut(memory, thread_id[t], state[t].turns)
  /\ state' = [state EXCEPT ![t] = EmptyState]
  /\ fetched' = [fetched EXCEPT ![t] = <<>>]
  /\ judged' = [judged EXCEPT ![t] = <<>>]
  /\ retrieval_calls' = [retrieval_calls EXCEPT ![t] = 0]
  /\ trace' = [trace EXCEPT ![t] = <<>>]
  /\ last_call' = [last_call EXCEPT ![t] = NoCall]
  /\ UNCHANGED <<thread_id, invocations, invocation, baseline, committed>>
  /\ UNCHANGED frontend

\* A capability call raises: the exception leaves process_question, the
\* DialogState of the invocation is dropped and nothing is persisted.
CapabilityError(t) ==
  /\ pc[t] \in Nodes
  /\ CallsCapability(t)
  /\ pc' = [pc EXCEPT ![t] = "failed"]
  /\ result' = [result EXCEPT ![t] = [status |-> "error", turns |-> <<>>]]
  /\ state' = [state EXCEPT ![t] = EmptyState]
  /\ fetched' = [fetched EXCEPT ![t] = <<>>]
  /\ judged' = [judged EXCEPT ![t] = <<>>]
  /\ retrieval_calls' = [retrieval_calls EXCEPT ![t] = 0]
  /\ trace' = [trace EXCEPT ![t] = <<>>]
  /\ last_call' = [last_call EXCEPT ![t] = NoCall]
  /\ UNCHANGED <<thread_id, memory, invocations, invocation, baseline, committed>>
  /\ UNCHANGED frontend

\* Variant: the cancelled invocation's turns are persisted.
Cancel_partial_commit(t) ==
  /\ pc[t] \in Nodes
  /\ pc' = [pc EXCEPT ![t] = "cancelled"]
  /\ result' = [result EXCEPT ![t] = [status |-> "cancelled", turns |-> <<>>]]
  /\ memory' = MemoryPut(memory, thread_id[t], state[t].turns)
  /\ state' = [state EXCEPT ![t] = EmptyState]
  /\ fetched' = [fetched EXCEPT ![t] = <<>>]
  /\ judged' = [judged EXCEPT ![t] = <<>>]
  /\ retrieval_calls' = [retrieval_calls EXCEPT ![t] = 0]
  /\ trace' = [trace EXCEPT ![t] = <<>>]
  /\ last_call' = [last_call EXCEPT ![t] = NoCall]
  /\ UNCHANGED <<thread_id, invocations, invocation, baseline, committed>>
  /\ UNCHANGED frontend

\* The scope around the invocation is cancelled or its deadline passes, before
\* or during any node: the caller gets an error, nothing is persisted.
Cancel(t) ==
  /\ pc[t] \in Nodes
  /\ pc' = [pc EXCEPT ![t] = "cancelled"]
  /\ result' = [result EXCEPT ![t] = [status |-> "cancelled", turns |-> <<>>]]
  /\ state' = [state EXCEPT ![t] = EmptyState]
  /\ fetched' = [fetched EXCEPT ![t] = <<>>]
  /\ judged' = [judged EXCEPT ![t] = <<>>]
  /\ retrieval_calls' = [retrieval_calls EXCEPT ![t] = 0]
  /\ trace' = [trace EXCEPT ![t] = <<>>]
  /\ last_call' = [last_call EXCEPT ![t] = NoCall]
  /\ UNCHANGED <<thread_id, memory, invocations, invocation, baseline, committed>>
  /\ UNCHANGED frontend

\* The caller takes the result; its slot is free for the next invocation.
Return(t) ==
  /\ pc[t] \in {"END", "failed", "cancelled"}
  /\ pc' = [pc EXCEPT ![t] = "idle"]
  /\ thread_id' = [thread_id EXCEPT ![t] = NoThread]
  /\ state' = [state EXCEPT ![t] = EmptyState]
  /\ result' = [result EXCEPT ![t] = NoResult]
  /\ invocation' = [invocation EXCEPT ![t] = 0]
  /\ baseline' = [baseline EXCEPT ![t] = <<>>]
  /\ fetched' = [fetched EXCEPT ![t] = <<>>]
  /\ judged' = [judged EXCEPT ![t] = <<>>]
  /\ retrieval_calls' = [retrieval_calls EXCEPT ![t] = 0]
  /\ trace' = [trace EXCEPT ![t] = <<>>]
  /\ last_call' = [last_call EXCEPT ![t] = NoCall]
  /\ UNCHANGED <<memory, invocations, committed>>
  /\ UNCHANGED frontend

Step(t) ==
  \/ \E c \in ThreadIds, q \in Questions : Invoke(t, c, q)
  \/ Rephrase(t)
  \/ Classify(t)
  \/ Retrieve(t)
  \/ Evaluate(t)
  \/ Tweak(t)
  \/ Respond(t)
  \/ Reject(t)
  \/ Fallback(t)
  \/ CapabilityError(t)
  \/ Cancel(t)
  \/ Return(t)

Next == \E t \in Callers : Step(t)

Spec == Init /\ [][Next]_vars

\* One caller alone.  graph.invoke runs the nodes of an invocation one after
\* the other until a terminal node or an exception, and no node waits for
\* another caller, so every enabled step of the invocation is eventually taken.
SeqNext == Step("t1")

LiveSpec == Init /\ [][SeqNext]_vars /\ WF_vars(SeqNext)

\* ------------------------------------------------------------ web client: actions
\* A page that leaves the screen loses its useState values; the promises of
\* its handlers go on, and their later setState calls reach no component.
DashboardKept(authenticated, path) ==
  /\ Rendered(isAuthenticated, location) = "Dashboard"
  /\ Rendered(authenticated, path) = "Dashboard"

PapersKept(authenticated, path) ==
  /\ Rendered(isAuthenticated, location) = "Papers"
  /\ Rendered(authenticated, path) = "Papers"

Unmounted(calls) == {[c EXCEPT !.mounted = FALSE] : c \in calls}

\* The router renders (authenticated, path) in place of what is on screen.
Render(authenticated, path) ==
  /\ IF DashboardKept(authenticated, path)
       THEN UNCHANGED <<input, isLoading, inflight>>
       ELSE /\ input' = <<>>
            /\ isLoading' = FALSE
            /\ inflight' = Unmounted(inflight)
  /\ IF PapersKept(authenticated, path)
       THEN UNCHANGED <<uploadingFiles, drops>>
       ELSE /\ uploadingFiles' = <<>>
            /\ drops' = Unmounted(drops)

\* A link of the Sidebar or the browser's back and forward buttons change the path.
Request(path) ==
  /\ Routes(isAuthenticated, location).kind = "page"
  /\ location' = path
  /\ redirected' = <<>>
  /\ Render(isAuthenticated, path)
  /\ last' = Event("request", 0, TRUE)
  /\ UNCHANGED <<isAuthenticated, chat, sends, toggled>>
  /\ UNCHANGED pipeline

\* A rendered <Navigate to=...> changes the path.
Redirect ==
  /\ Routes(isAuthenticated, location).kind = "navigate"
  /\ location' = Routes(isAuthenticated, location).target
  /\ redirected' = Append(redirected, location)
  /\ Render(isAuthenticated, location')
  /\ last' = Event("redirect", 0, TRUE)
  /\ UNCHANGED <<isAuthenticated, chat, sends, toggled>>
  /\ UNCHANGED pipeline

\* The Login or Register page signs the user in.
Login ==
  /\ Rendered(isAuthenticated, location) \in {"Login", "Register"}
  /\ isAuthenticated' = TRUE
  /\ redirected' = <<>>
  /\ Render(TRUE, location)
  /\ last' = Event("login", 0, TRUE)
  /\ UNCHANGED <<location, chat, sends, toggled>>
  /\ UNCHANGED pipeline

\* The Sidebar's Sign out button.
Logout ==
  /\ Rendered(isAuthenticated, location) \in {"Dashboard", "Papers"}
  /\ isAuthenticated' = FALSE
  /\ redirected' = <<>>
  /\ Render(FALSE, location)
  /\ last' = Event("logout", 0, TRUE)
  /\ UNCHANGED <<location, chat, sends, toggled>>
  /\ UNCHANGED pipeline

Routing ==
  \/ \E path \in Paths : Request(path)
  \/ Redirect
  \/ Login
  \/ Logout

\* The input box's onChange; the box is disabled while a send is under way.
setInput(value) ==
  /\ Rendered(isAuthenticated, location) = "Dashboard"
  /\ ~isLoading
  /\ input' = value
  /\ last' = Event("setInput", 0, TRUE)
  /\ UNCHANGED <<isAuthenticated, location, redirected, chat, isLoading, sends,
                 inflight, toggled, uploadingFiles, drops>>
  /\ UNCHANGED pipeline

\* handleSend up to its first await.  The call keeps the currentConversation
\* of the render that created it: the store's value when the call starts.
handleSend ==
  /\ Rendered(isAuthenticated, location) = "Dashboard"
  /\ IF trim(input) = <<>> \/ isLoading
       THEN /\ last' = Event("handleSend", 0, FALSE)
            /\ UNCHANGED <<chat, input, isLoading, sends, inflight>>
       ELSE /\ sends < MaxSends
            /\ LET n == sends + 1
                   userMessage == trim(input)
                   currentConversation == chat.currentConversation
                   tempUserMessage ==
                     Message(<<"temp", n>>,
                             IF currentConversation # Null
                               THEN currentConversation[1].id ELSE "",
                             "user", userMessage)
               IN /\ sends' = n
                  /\ input' = <<>>
                  /\ isLoading' = TRUE
                  /\ chat' = setCurrentConversation(chat,
                       IF currentConversation # Null
                         THEN Some([currentConversation[1] EXCEPT
                                      !.messages = Append(@, tempUserMessage)])
                         ELSE Some(Conversation("", <<tempUserMessage>>)))
                  /\ inflight' = inflight \cup
                       {[n |-> n, currentConversation |-> currentConversation,
                         tempUserMessage |-> tempUserMessage, awaits |-> "query",
                         conversation_id |-> "", mounted |-> TRUE]}
                  /\ last' = Event("handleSend", n, TRUE)
  /\ UNCHANGED <<isAuthenticated, location, redirected, toggled, uploadingFiles, drops>>
  /\ UNCHANGED pipeline

\* The message the server answers send n with.
AssistantMessage(n, conversation_id) ==
  Message(<<"assistant", n>>, conversation_id, "assistant", <<"a">>)

\* The conversation the server holds after the first send of a new chat.
ServerConversation(call) ==
  Conversation(call.conversation_id,
    <<Message(<<"user", call.n>>, call.conversation_id, "user",
              call.tempUserMessage.content),
      AssistantMessage(call.n, call.conversation_id)>>)

\* The call has no id of an existing conversation.
NoConversationId(call) ==
  \/ call.currentConversation = Null
  \/ call.currentConversation[1].id = ""

\* handleSend's finally block.
Finally(call) ==
  /\ inflight' = inflight \ {call}
  /\ isLoading' = IF call.mounted THEN FALSE ELSE isLoading

\* chatApi.query resolves: a new chat goes on to fetch its conversation, an
\* existing one gets the two messages appended to the list the call kept.
QueryResolves(call) ==
  /\ call.awaits = "query"
  /\ IF NoConversationId(call)
       THEN \E conversation_id \in ConversationIds :
              /\ inflight' = (inflight \ {call}) \cup
                   {[call EXCEPT !.awaits = "get", !.conversation_id = conversation_id]}
              /\ UNCHANGED <<chat, isLoading>>
       ELSE /\ chat' = setCurrentConversation(chat,
                 Some([call.currentConversation[1] EXCEPT
                         !.messages = slice(@, 0, -1) \o
                           <<call.tempUserMessage,
                             AssistantMessage(call.n, call.currentConversation[1].id)>>]))
            /\ Finally(call)
  /\ last' = Event("query", call.n, TRUE)
  /\ UNCHANGED <<isAuthenticated, location, redirected, input, sends, toggled,
                 uploadingFiles, drops>>
  /\ UNCHANGED pipeline

\* conversationsApi.get resolves.
GetResolves(call) ==
  /\ call.awaits = "get"
  /\ chat' = setCurrentConversation(chat, Some(ServerConversation(call)))
  /\ Finally(call)
  /\ last' = Event("get", call.n, TRUE)
  /\ UNCHANGED <<isAuthenticated, location, redirected, input, sends, toggled,
                 uploadingFiles, drops>>
  /\ UNCHANGED pipeline

\* Either request rejects: the catch block logs, the store is left as it is.
Rejects(call) ==
  /\ Finally(call)
  /\ last' = Event(call.awaits, call.n, FALSE)
  /\ UNCHANGED <<isAuthenticated, location, redirected, chat, input, sends, toggled,
                 uploadingFiles, drops>>
  /\ UNCHANGED pipeline

startNewChat ==
  /\ Rendered(isAuthenticated, location) = "Dashboard"
  /\ chat' = setSelectedPapers(setCurrentConversation(chat, Null), <<>>)
  /\ toggled' = [i \in PaperIds |-> 0]
  /\ last' = Event("startNewChat", 0, TRUE)
  /\ UNCHANGED <<isAuthenticated, location, redirected, input, isLoading, sends,
                 inflight, uploadingFiles, drops>>
  /\ UNCHANGED pipeline

\* A click on a paper card of the Dashboard.
TogglePaper(paper) ==
  /\ Rendered(isAuthenticated, location) = "Dashboard"
  /\ chat' = togglePaperSelection(chat, paper)
  /\ toggled' = [toggled EXCEPT ![paper.id] = 1 - @]
  /\ last' = Event("togglePaperSelection", 0, TRUE)
  /\ UNCHANGED <<isAuthenticated, location, redirected, input, isLoading, sends,
                 inflight, uploadingFiles, drops>>
  /\ UNCHANGED pipeline

ChatNext ==
  \/ Routing
  \/ \E value \in Inputs : setInput(value)
  \/ handleSend
  \/ \E call \in inflight : QueryResolves(call)
  \/ \E call \in inflight : GetResolves(call)
  \/ \E call \in inflight : Rejects(call)
  \/ startNewChat
  \/ \E paper \in PaperList : TogglePaper(paper)

ChatSpec == Init /\ [][ChatNext]_vars

\* ------------------------------------------------------------ web client: Papers page
\* onDrop up to its first await: the first file's name is shown and its
\* upload starts.  The dropzone stays open while uploads run.
onDrop(acceptedFiles) ==
  /\ Rendered(isAuthenticated, location) = "Papers"
  /\ Cardinality(drops) < MaxDrops
  /\ LET d == CHOOSE k \in 1..MaxDrops : \A drop \in drops : drop.d # k
     IN /\ IF acceptedFiles = <<>>
             THEN UNCHANGED <<uploadingFiles, drops>>
             ELSE /\ uploadingFiles' = Append(uploadingFiles, acceptedFiles[1])
                  /\ drops' = drops \cup
                       {[d |-> d, files |-> acceptedFiles, at |-> 1, mounted |-> TRUE]}
        /\ last' = Event("onDrop", d, acceptedFiles # <<>>)
  /\ UNCHANGED <<isAuthenticated, location, redirected, chat, input, isLoading,
                 sends, inflight, toggled>>
  /\ UNCHANGED pipeline

\* uploadMutation.mutateAsync settles for the file a drop is at: the finally
\* block takes the file's name off the list, then the loop shows the next
\* file's name and starts its upload, or onDrop returns.
UploadSettles(drop, ok) ==
  /\ LET name == drop.files[drop.at]
         differs(f) == f # name
         removed == SelectSeq(uploadingFiles, differs)
         more == drop.at < Len(drop.files)
     IN /\ uploadingFiles' =
             IF ~drop.mounted THEN uploadingFiles
             ELSE IF more THEN Append(removed, drop.files[drop.at + 1])
             ELSE removed
        /\ drops' = (drops \ {drop}) \cup
             (IF more THEN {[drop EXCEPT !.at = @ + 1]} ELSE {})
  /\ last' = Event("upload", drop.d, ok)
  /\ UNCHANGED <<isAuthenticated, location, redirected, chat, input, isLoading,
                 sends, inflight, toggled>>
  /\ UNCHANGED pipeline

PapersNext ==
  \/ Routing
  \/ \E acceptedFiles \in AcceptedFiles : onDrop(acceptedFiles)
  \/ \E drop \in drops, ok \in BOOLEAN : UploadSettles(drop, ok)

PapersSpec == Init /\ [][PapersNext]_vars

\* ------------------------------------------------------------ properties
Range(s) == {s[i] : i \in DOMAIN s}

IsPrefix(a, b) == Len(a) <= Len(b) /\ SubSeq(b, 1, Len(a)) = a

\* a is b with some entries removed: nothing added, duplicated or reordered.
IsSubsequence(a, b) ==
  \E f \in [1..Len(a) -> 1..Len(b)] :
    /\ \A i, j \in 1..Len(a) : i < j => f[i] < f[j]
    /\ \A i \in 1..Len(a) : a[i] = b[f[i]]

\* a is the entries of b at the positions idx, in the order of b.
KeepsExactly(a, b, idx) ==
  \E f \in [1..Len(a) -> idx] :
    /\ \A i, j \in 1..Len(a) : i < j => f[i] < f[j]
    /\ \A k \in idx : \E i \in 1..Len(a) : f[i] = k
    /\ \A i \in 1..Len(a) : a[i] = b[f[i]]

\* The turns an invocation has added to the ones it loaded.
Added(t) == SubSeq(state[t].turns, Len(baseline[t]) + 1, Len(state[t].turns))

CountRole(turns, role) == Cardinality({i \in DOMAIN turns : turns[i].role = role})

LastCommitted(c) ==
  IF committed[c] = <<>> THEN <<>> ELSE committed[c][Len(committed[c])]

AfterEvaluate(t) == pc[t] \in {"create_response", "tweak_question", "fallback_response"}

\* C1: in every reachable state of every invocation refinement_attempts is
\* between 0 and MaxAttempts inclusive.
C1_AttemptsBounded ==
  \A t \in Callers :
    /\ state[t].refinement_attempts >= 0
    /\ state[t].refinement_attempts <= MaxAttempts

\* An invocation that used every retry and was sent to the fallback.
C1_Witness ==
  \E t \in Callers :
    pc[t] = "fallback_response" /\ state[t].refinement_attempts = MaxAttempts

\* C2: every invocation that has entered the graph eventually leaves it, at
\* END after exactly one terminal node (one assistant turn added) or with the
\* exception of a capability call or cancelled; the tweak -> fetch cycle does
\* not repeat forever.
C2_Terminates ==
  /\ \A t \in Callers : (pc[t] \in Nodes) ~> (pc[t] \in {"END", "failed", "cancelled"})
  /\ [](\A t \in Callers : pc[t] = "END" => CountRole(Added(t), "assistant") = 1)

\* An invocation that went round the cycle MaxAttempts times and ended.
C2_Witness ==
  \E t \in Callers :
    /\ pc[t] = "END"
    /\ state[t].refinement_attempts = MaxAttempts
    /\ retrieval_calls[t] = MaxAttempts + 1

\* C3: once classify_topic has set topic_flag to off-topic, the invocation is
\* at reject_off_topic or has ended there with the fixed rejection message,
\* and the retriever has been called zero times.
C3_OffTopicNeverRetrieves ==
  \A t \in Callers :
    (pc[t] \in Nodes \cup {"END"} /\ Lower(state[t].topic_flag) = "no") =>
      /\ retrieval_calls[t] = 0
      /\ pc[t] \in {"reject_off_topic", "END"}
      /\ pc[t] = "END" =>
           /\ state[t].turns[Len(state[t].turns)].role = "assistant"
           /\ state[t].turns[Len(state[t].turns)].content = RejectMessage
           /\ result[t] = [status |-> "ok", turns |-> state[t].turns]

\* An off-topic invocation that has ended.
C3_Witness ==
  \E t \in Callers :
    pc[t] = "END" /\ state[t].topic_flag = "No" /\ retrieval_calls[t] = 0

\* C4: after every evaluate_docs step retrieved_docs is a subsequence of what
\* fetch_docs returned in the same cycle: exactly the entries judged relevant,
\* each once, in the order fetched.
C4_EvaluateKeepsSubsequence ==
  \A t \in Callers :
    AfterEvaluate(t) =>
      /\ Len(judged[t]) = Len(fetched[t])
      /\ IsSubsequence(state[t].retrieved_docs, fetched[t])
      /\ KeepsExactly(state[t].retrieved_docs, fetched[t],
                      {i \in DOMAIN fetched[t] : Lower(judged[t][i]) = "yes"})

\* Two documents were fetched, the first was judged not relevant and only the
\* second was kept.
C4_Witness ==
  \E t \in Callers :
    /\ pc[t] = "create_response"
    /\ fetched[t] = <<"d1", "d2">>
    /\ judged[t] = <<"No", "Yes">>
    /\ state[t].retrieved_docs = <<"d2">>

\* C5: the turns a successful invocation returns are the turns persisted for
\* its thread_id, and the next invocation on that thread_id loads exactly
\* the turns the last successful one returned.
C5_ReturnedIsNextBaseline ==
  [][\A t \in Callers :
       /\ (pc[t] = "idle" /\ pc'[t] = "rephrase_query") =>
            /\ baseline'[t] = LastCommitted(thread_id'[t])
            /\ IsPrefix(baseline'[t], state'[t].turns)
       /\ (pc[t] \in TerminalNodes /\ pc'[t] = "END") =>
            /\ result'[t].status = "ok"
            /\ result'[t].turns = committed'[thread_id[t]][Len(committed'[thread_id[t]])]
    ]_vars

\* A later invocation that loaded the non-empty turns the previous one returned.
C5_Witness ==
  \E t \in Callers :
    /\ pc[t] = "rephrase_query"
    /\ baseline[t] # <<>>
    /\ baseline[t] = LastCommitted(thread_id[t])

\* C6: an invocation's turns are the turns it loaded, unchanged, followed by
\* exactly one user entry (its question) and at most one assistant entry: none
\* while it runs, one when it has ended.
C6_TurnsAppendOnly ==
  \A t \in Callers :
    pc[t] \in Nodes \cup {"END"} =>
      /\ IsPrefix(baseline[t], state[t].turns)
      /\ Added(t)[1] = Turn("user", state[t].question, thread_id[t], invocation[t])
      /\ CountRole(Added(t), "user") = 1
      /\ Len(Added(t)) = IF pc[t] = "END" THEN 2 ELSE 1
      /\ pc[t] = "END" =>
           /\ Added(t)[2].role = "assistant"
           /\ result[t].turns = state[t].turns

\* An invocation with a history has ended with its history intact.
C6_Witness ==
  \E t \in Callers :
    pc[t] = "END" /\ Len(baseline[t]) = 2 /\ Len(state[t].turns) = 4

\* C7: when a capability call of an invocation has raised, the caller holds
\* an error and no turns, no turn of that invocation is persisted anywhere,
\* and the persisted turns of its thread_id are the ones it loaded unless
\* another invocation has committed to that thread_id since.
C7_FailureCommitsNothing ==
  \A t \in Callers :
    pc[t] = "failed" =>
      /\ result[t] = [status |-> "error", turns |-> <<>>]
      /\ \A c \in ThreadIds : \A x \in Range(memory[c]) : x.invocation # invocation[t]
      /\ \/ memory[thread_id[t]] = baseline[t]
         \/ \E i \in DOMAIN committed[thread_id[t]] :
              \E x \in Range(committed[thread_id[t]][i]) :
                x \notin Range(baseline[t]) /\ x.invocation # invocation[t]

\* A failed invocation on a conversation with a history, which is untouched.
C7_Witness ==
  \E t \in Callers :
    /\ pc[t] = "failed"
    /\ baseline[t] # <<>>
    /\ memory[thread_id[t]] = baseline[t]

\* C8: the commits to one thread_id do not interleave: every list committed
\* has the lists committed before it as prefixes, and the persisted turns hold
\* every committed turn.
C8_CommitsSerialized ==
  \A c \in ThreadIds :
    /\ \A i, j \in DOMAIN committed[c] :
         i < j => IsPrefix(committed[c][i], committed[c][j])
    /\ \A i \in DOMAIN committed[c] : Range(committed[c][i]) \subseteq Range(memory[c])

\* C9: the turns persisted under a thread_id and the turns an invocation on
\* it loads or holds were all authored on that thread_id, and a step changes
\* the persisted turns of a thread_id only as the commit of an invocation on
\* that thread_id.
C9_ThreadIsolation ==
  /\ [](/\ \A c \in ThreadIds : \A x \in Range(memory[c]) : x.conversation_id = c
        /\ \A t \in Callers :
             \A x \in Range(baseline[t]) \cup Range(state[t].turns) :
               x.conversation_id = thread_id[t])
  /\ [][\A c \in ThreadIds :
          memory'[c] # memory[c] =>
            \E t \in Callers :
              thread_id[t] = c /\ pc[t] \in TerminalNodes /\ pc'[t] = "END"
       ]_vars

\* An invocation on A is running on the turns it loaded while one on B has
\* committed.
C9_Witness ==
  \E t, u \in Callers :
    /\ thread_id[t] = "A" /\ pc[t] \in Nodes
    /\ thread_id[u] = "B" /\ pc[u] = "END"
    /\ memory["A"] = baseline[t]
    /\ memory["B"] # <<>>

CountNode(tr, node) == Cardinality({i \in DOMAIN tr : tr[i] = node})

\* How many times the edge from one node to the next was taken in a trace.
CountEdge(tr, from, to) ==
  Cardinality({i \in DOMAIN tr : i < Len(tr) /\ tr[i] = from /\ tr[i + 1] = to})

LastTurn(turns) == turns[Len(turns)]

\* C11: an on-topic invocation in which every Evaluate kept no document has
\* called retrieval exactly MaxAttempts + 1 times when it leaves the loop, its
\* refinement_attempts is then MaxAttempts, it leaves through Fallback and not
\* Respond, and it ends with the fixed fallback message returned as a normal
\* answer.
C11_ExhaustedRunFallsBack ==
  \A t \in Callers :
    LET s == state[t]
        exhausted == Lower(s.topic_flag) = "yes" /\ ~s.ready_for_response
    IN /\ pc[t] \in {"fallback_response", "END"} /\ exhausted =>
            /\ retrieval_calls[t] = MaxAttempts + 1
            /\ CountNode(trace[t], "fetch_docs") = MaxAttempts + 1
            /\ CountNode(trace[t], "evaluate_docs") = MaxAttempts + 1
            /\ s.refinement_attempts = MaxAttempts
       /\ pc[t] = "END" /\ exhausted =>
            /\ LastTurn(trace[t]) = "fallback_response"
            /\ LastTurn(s.turns).role = "assistant"
            /\ LastTurn(s.turns).content = FallbackMessage
            /\ result[t] = [status |-> "ok", turns |-> s.turns]
       /\ pc[t] = "create_response" => s.ready_for_response

\* An on-topic invocation ended with the fallback message after three
\* retrievals that all came back with documents, none of them kept.
C11_Witness ==
  \E t \in Callers :
    /\ pc[t] = "END"
    /\ state[t].topic_flag = "Yes"
    /\ LastTurn(state[t].turns).content = FallbackMessage
    /\ retrieval_calls[t] = MaxAttempts + 1
    /\ result[t].status = "ok"

\* C12: whatever the judgments, in one invocation the edge from Tweak to
\* Retrieve is taken at most MaxAttempts times, Tweak runs at most MaxAttempts
\* times and retrieval is called at most MaxAttempts + 1 times.
C12_RetryLoopBounded ==
  \A t \in Callers :
    /\ CountEdge(trace[t], "tweak_question", "fetch_docs") <= MaxAttempts
    /\ CountNode(trace[t], "tweak_question") <= MaxAttempts
    /\ CountNode(trace[t], "fetch_docs") <= MaxAttempts + 1
    /\ retrieval_calls[t] <= MaxAttempts + 1

\* The third retrieval of an invocation brought a document that was kept.
C12_Witness ==
  \E t \in Callers :
    /\ pc[t] = "create_response"
    /\ CountEdge(trace[t], "tweak_question", "fetch_docs") = MaxAttempts
    /\ retrieval_calls[t] = MaxAttempts + 1
    /\ state[t].retrieved_docs # <<>>

\* C13: the Decision Router selects Respond when ready_for_response is true,
\* Tweak when it is false and refinement_attempts is below MaxAttempts, and
\* Fallback when it is false and refinement_attempts is MaxAttempts or more;
\* exactly one of the three is selected in every state.
C13_DecisionRouterTable ==
  \A t \in Callers :
    LET s == state[t]
        respond == s.ready_for_response
        tweak == ~s.ready_for_response /\ s.refinement_attempts < MaxAttempts
        fallback == ~s.ready_for_response /\ s.refinement_attempts >= MaxAttempts
    IN /\ Cardinality({b \in {<<1, respond>>, <<2, tweak>>, <<3, fallback>>} : b[2]}) = 1
       /\ decision_router(s) = "create_response" <=> respond
       /\ decision_router(s) = "tweak_question" <=> tweak
       /\ decision_router(s) = "fallback_response" <=> fallback
       /\ AfterEvaluate(t) =>
            /\ pc[t] = "create_response" <=> respond
            /\ pc[t] = "tweak_question" <=> tweak
            /\ pc[t] = "fallback_response" <=> fallback

\* One invocation is sent to Respond with its retries used up while another is
\* sent to Fallback.
C13_Witness ==
  \E t, u \in Callers :
    /\ pc[t] = "create_response"
    /\ state[t].refinement_attempts = MaxAttempts
    /\ pc[u] = "fallback_response"
    /\ ~state[u].ready_for_response

\* C14: with no prior turns Rephrase stores the current question verbatim as
\* refined_query and makes no text-generation call; with prior turns it makes
\* one text-generation call on the prior history and the current question and
\* stores the trimmed output.
C14_RephraseByHistory ==
  \A t \in Callers :
    pc[t] = "classify_topic" =>
      LET s == state[t]
      IN /\ LastTurn(trace[t]) = "rephrase_query"
         /\ baseline[t] = <<>> =>
              /\ s.refined_query = s.question
              /\ last_call[t].generation = 0
         /\ baseline[t] # <<>> =>
              /\ last_call[t].generation = 1
              /\ last_call[t].prompt.history = baseline[t]
              /\ last_call[t].prompt.question = s.question
              /\ \E out \in RephraseOutputs : s.refined_query = Strip(out)
              /\ s.refined_query # <<>>
              /\ ~IsWhitespace(s.refined_query[1])
              /\ ~IsWhitespace(s.refined_query[Len(s.refined_query)])

\* A follow-up question was rephrased by one text-generation call on the
\* conversation's earlier turns, and the stored query is the trimmed output.
C14_Witness ==
  \E t \in Callers :
    /\ pc[t] = "classify_topic" /\ baseline[t] # <<>>
    /\ last_call[t].generation = 1
    /\ last_call[t].prompt.history = memory[thread_id[t]]
    /\ state[t].refined_query # state[t].question
    /\ \E out \in RephraseOutputs :
         out # Strip(out) /\ state[t].refined_query = Strip(out)

\* The invocations committed on thread_id c each built on the ones before.
Sequential(c) ==
  \A i, j \in DOMAIN committed[c] :
    i < j => IsPrefix(committed[c][i], committed[c][j])

\* C15: in a sequence of successful invocations on one thread_id, the history
\* Rephrase of the (n+1)-th gets has length 2n: the user turn and the
\* assistant turn of each earlier invocation, in order.
C15_HistoryGrowsByTwo ==
  [][\A t \in Callers :
       pc[t] = "idle" /\ pc'[t] = "rephrase_query" =>
         LET c == thread_id'[t]
             n == Len(committed[c])
             history == rephrase_prompt(state'[t]).history
         IN Sequential(c) =>
              /\ Len(history) = 2 * n
              /\ \A k \in 1..n :
                   /\ history[2 * k - 1].role = "user"
                   /\ history[2 * k].role = "assistant"
                   /\ history[2 * k - 1] = committed[c][k][2 * k - 1]
                   /\ history[2 * k] = committed[c][k][2 * k]
                   /\ history[2 * k - 1].invocation = history[2 * k].invocation
    ]_vars

\* The second invocation on a conversation starts with the two turns of the
\* first.
C15_Witness ==
  \E t \in Callers :
    /\ pc[t] = "rephrase_query"
    /\ Len(committed[thread_id[t]]) = 1
    /\ Len(rephrase_prompt(state[t]).history) = 2
    /\ rephrase_prompt(state[t]).history = committed[thread_id[t]][1]

\* The state a terminal node is run on with its question, its refined query,
\* its retrieved documents or its prior turns replaced by another value, one
\* field at a time and all at once.
OtherInputs(s) ==
  {[s EXCEPT !.question = q] : q \in Questions \cup {<<"x">>}}
  \cup {[s EXCEPT !.refined_query = rq] : rq \in RephraseOutputs \cup TweakOutputs}
  \cup {[s EXCEPT !.retrieved_docs = d] : d \in RetrievalResults}
  \cup {[s EXCEPT !.turns = <<LastTurn(s.turns)>>],
         [s EXCEPT !.question = <<"x">>, !.refined_query = <<"x">>,
                   !.retrieved_docs = <<>>, !.turns = <<LastTurn(s.turns)>>]}

\* C16: Reject and Fallback call neither text generation nor retrieval, and
\* the message each appends is one fixed constant, the same whatever the
\* question, the refined query, the prior turns and the retrieved documents.
C16_FixedMessagesNoCalls ==
  \A t \in Callers :
    /\ pc[t] = "reject_off_topic" =>
         \A s \in OtherInputs(state[t]) \cup {state[t]} :
           LastTurn(reject_off_topic(s).turns).content = RejectMessage
    /\ pc[t] = "fallback_response" =>
         \A s \in OtherInputs(state[t]) \cup {state[t]} :
           LastTurn(fallback_response(s).turns).content = FallbackMessage
    /\ pc[t] = "END" /\ LastTurn(trace[t]) = "reject_off_topic" =>
         /\ last_call[t].generation = 0 /\ last_call[t].retrieval = 0
         /\ retrieval_calls[t] = 0
         /\ LastTurn(state[t].turns).content = RejectMessage
    /\ pc[t] = "END" /\ LastTurn(trace[t]) = "fallback_response" =>
         /\ last_call[t].generation = 0 /\ last_call[t].retrieval = 0
         /\ retrieval_calls[t] = CountNode(trace[t], "fetch_docs")
         /\ LastTurn(state[t].turns).content = FallbackMessage

\* A rejected first question and a follow-up that fell back, on different
\* refined queries, each ended with its fixed message.
C16_Witness ==
  \E t, u \in Callers :
    /\ pc[t] = "END" /\ LastTurn(trace[t]) = "reject_off_topic"
    /\ baseline[t] = <<>>
    /\ pc[u] = "END" /\ LastTurn(trace[u]) = "fallback_response"
    /\ baseline[u] # <<>>
    /\ state[t].refined_query # state[u].refined_query

\* C17: when the invocation is cancelled or times out at any node before its
\* terminal commit is done, the step commits nothing, the caller holds an
\* error and no turns, no turn of the invocation is persisted, and the
\* persisted turns of its thread_id, from which a later invocation starts, are
\* the ones it loaded unless another invocation has committed there since.
C17_CancelCommitsNothing ==
  /\ [](\A t \in Callers :
         pc[t] = "cancelled" =>
           /\ result[t].status \notin {"ok", "none"}
           /\ result[t].turns = <<>>
           /\ \A c \in ThreadIds : \A x \in Range(memory[c]) : x.invocation # invocation[t]
           /\ \/ MemoryGet(memory, thread_id[t]) = baseline[t]
              \/ \E i \in DOMAIN committed[thread_id[t]] :
                   \E x \in Range(committed[thread_id[t]][i]) :
                     x \notin Range(baseline[t]) /\ x.invocation # invocation[t])
  /\ [][\A t \in Callers :
         pc[t] \in Nodes /\ pc'[t] = "cancelled" =>
           memory' = memory /\ committed' = committed
       ]_vars

\* An invocation on a conversation with a history was cancelled, and the
\* history is as it was.
C17_Witness ==
  \E t \in Callers :
    /\ pc[t] = "cancelled"
    /\ result[t].status = "cancelled"
    /\ baseline[t] # <<>>
    /\ memory[thread_id[t]] = baseline[t]

\* C18: a structured output outside the closed set is a schema violation that
\* fails the invocation: no invocation goes on, to Reject or anywhere else,
\* with a topic_flag that is neither 'Yes' nor 'No', and none leaves Evaluate
\* having dropped a document on a relevance score that is neither.
C18_OutOfSetGradeFails ==
  \A t \in Callers :
    /\ pc[t] \in Nodes \cup {"END"} =>
         state[t].topic_flag \in ClosedGrades \cup {EmptyState.topic_flag}
    /\ \A i \in DOMAIN judged[t] : judged[t][i] \in ClosedGrades

\* The orders in which n judgments issued together can complete.
CompletionOrders(n) ==
  {p \in [1..n -> 1..n] : \A i, j \in 1..n : p[i] = p[j] => i = j}

\* Variant: the documents are collected as their judgments complete.
evaluate_concurrently_as_completed(docs, scores, order) ==
  Relevant([k \in DOMAIN order |-> docs[order[k]]],
           [k \in DOMAIN order |-> scores[order[k]]])

\* Evaluate with the judgments issued together: the k-th to complete is the
\* one for position order[k]; each score is filed under its document's
\* position and the documents are then filtered in retrieval order.
evaluate_concurrently(docs, scores, order) ==
  LET done == [k \in DOMAIN order |-> [position |-> order[k], score |-> scores[order[k]]]]
      score_at == [i \in DOMAIN docs |->
                     done[CHOOSE k \in DOMAIN done : done[k].position = i].score]
  IN Relevant(docs, score_at)

ScoresBy(judge, docs) == [i \in DOMAIN docs |-> judge[docs[i]]]

\* C20: with a deterministic relevance judgment Evaluate is a function of the
\* retrieved documents and the query alone: run again on the same input it
\* gives the same list, and run on its own output it gives that output back.
C20_EvaluateReplayable ==
  \A t \in Callers :
    AfterEvaluate(t) =>
      \A other \in Grades :
        LET judge == [d \in Docs |->
                        IF d \in Range(fetched[t])
                          THEN judged[t][CHOOSE i \in DOMAIN fetched[t] : fetched[t][i] = d]
                          ELSE other]
        IN
          /\ ScoresBy(judge, fetched[t]) = judged[t]
          /\ evaluate_docs([state[t] EXCEPT !.retrieved_docs = fetched[t]],
                           ScoresBy(judge, fetched[t])) = state[t]
          /\ evaluate_docs(state[t], ScoresBy(judge, state[t].retrieved_docs)) = state[t]

\* Evaluate kept the first of two documents and dropped the second on a score
\* that is not 'Yes'.
C20_Witness ==
  \E t \in Callers :
    /\ AfterEvaluate(t)
    /\ fetched[t] = <<"d2", "d1">>
    /\ judged[t] = <<"Yes", "Maybe">>
    /\ state[t].retrieved_docs = <<"d2">>

\* Caller t's invocation is at node, or has ended through it.
AtOrThrough(t, node) ==
  \/ pc[t] = node
  \/ pc[t] = "END" /\ LastTurn(trace[t]) = node

\* C21: Fallback is reached only with refinement_attempts equal to
\* MaxAttempts and directly after an Evaluate that kept no document: never
\* while attempts remain, never when a document was judged relevant.
C21_FallbackOnlyWhenExhausted ==
  \A t \in Callers :
    /\ AtOrThrough(t, "fallback_response") =>
         /\ state[t].refinement_attempts = MaxAttempts
         /\ state[t].retrieved_docs = <<>>
         /\ ~state[t].ready_for_response
    /\ pc[t] = "fallback_response" =>
         /\ LastTurn(trace[t]) = "evaluate_docs"
         /\ \A i \in DOMAIN judged[t] : Lower(judged[t][i]) # "yes"

\* Fallback was reached after a last retrieval that found two documents, of
\* which Evaluate kept none.
C21_Witness ==
  \E t \in Callers :
    /\ pc[t] = "fallback_response"
    /\ Len(fetched[t]) = K
    /\ state[t].retrieved_docs = <<>>
    /\ state[t].refinement_attempts = MaxAttempts

\* C22: an answer that is not one of the two fixed messages is authored only
\* by Respond, Respond is entered only directly after an Evaluate that left
\* retrieved_docs non-empty, and every invocation completed through another
\* node ends with the reject or the fallback message.
C22_OnlyRespondAnswers ==
  \A t \in Callers :
    /\ pc[t] = "create_response" =>
         /\ state[t].retrieved_docs # <<>>
         /\ LastTurn(trace[t]) = "evaluate_docs"
    /\ pc[t] = "END" =>
         LET content == LastTurn(state[t].turns).content
             node == LastTurn(trace[t])
         IN /\ LastTurn(state[t].turns).role = "assistant"
            /\ content \notin {RejectMessage, FallbackMessage} => node = "create_response"
            /\ node = "create_response" => content \in Answers /\ state[t].retrieved_docs # <<>>
            /\ node = "reject_off_topic" => content = RejectMessage
            /\ node = "fallback_response" => content = FallbackMessage
            /\ node \in TerminalNodes

\* An invocation answered from a kept document after one refinement.
C22_Witness ==
  \E t \in Callers :
    /\ pc[t] = "END"
    /\ LastTurn(trace[t]) = "create_response"
    /\ LastTurn(state[t].turns).content \in Answers
    /\ state[t].retrieved_docs # <<>>
    /\ state[t].refinement_attempts = 1

\* C23: in the state Evaluate leaves, ready_for_response is true exactly when
\* retrieved_docs is non-empty.
C23_ReadyIffDocsKept ==
  \A t \in Callers :
    AfterEvaluate(t) =>
      /\ LastTurn(trace[t]) = "evaluate_docs"
      /\ state[t].ready_for_response <=> state[t].retrieved_docs # <<>>

\* Evaluate kept one of two documents and set the flag, while in another
\* invocation it kept nothing of what was fetched and left the flag false.
C23_Witness ==
  \E t, u \in Callers :
    /\ AfterEvaluate(t) /\ Len(fetched[t]) = K /\ Len(state[t].retrieved_docs) = 1
    /\ state[t].ready_for_response
    /\ AfterEvaluate(u) /\ fetched[u] # <<>> /\ state[u].retrieved_docs = <<>>
    /\ ~state[u].ready_for_response

\* C24: Classify runs exactly once per invocation and topic_flag is assigned
\* once: it has run once in every state past it, a Tweak is followed by
\* Retrieve and never by Classify, and no step of the invocation other than
\* Classify changes topic_flag.
C24_ClassifiedOnce ==
  /\ [](\A t \in Callers :
         /\ CountNode(trace[t], "classify_topic") <= 1
         /\ CountEdge(trace[t], "tweak_question", "classify_topic") = 0
         /\ pc[t] \in (Nodes \cup {"END"}) \ {"rephrase_query", "classify_topic"} =>
              CountNode(trace[t], "classify_topic") = 1)
  /\ [][\A t \in Callers :
         /\ pc[t] \in Nodes /\ pc'[t] \in Nodes \cup {"END"}
              /\ state'[t].topic_flag # state[t].topic_flag =>
              pc[t] = "classify_topic"
         /\ pc[t] = "tweak_question" /\ pc'[t] \in Nodes /\ pc'[t] # pc[t] =>
              pc'[t] = "fetch_docs"
       ]_vars

\* A refined query has been retrieved for again; the question was classified
\* once, before the first retrieval.
C24_Witness ==
  \E t \in Callers :
    /\ pc[t] = "evaluate_docs"
    /\ state[t].refinement_attempts = MaxAttempts
    /\ CountNode(trace[t], "classify_topic") = 1
    /\ CountNode(trace[t], "tweak_question") = MaxAttempts
    /\ state[t].topic_flag = "Yes"

\* C25: each Tweak step adds exactly 1 to refinement_attempts, replaces
\* refined_query by the capability's output, leaves turns, topic_flag and
\* question as they were, and hands over to Retrieve.
C25_TweakFrame ==
  [][\A t \in Callers :
       pc[t] = "tweak_question" /\ pc'[t] \notin {"tweak_question", "failed", "cancelled"} =>
         /\ state'[t].refinement_attempts = state[t].refinement_attempts + 1
         /\ state'[t].refined_query \in TweakOutputs
         /\ state'[t].turns = state[t].turns
         /\ state'[t].topic_flag = state[t].topic_flag
         /\ state'[t].question = state[t].question
         /\ pc'[t] = "fetch_docs"
    ]_vars

\* The second Tweak of an invocation has run: the query was a tweaked one
\* already and is overwritten, Retrieve is next.
C25_Witness ==
  \E t \in Callers :
    /\ pc[t] = "fetch_docs"
    /\ LastTurn(trace[t]) = "tweak_question"
    /\ state[t].refinement_attempts = MaxAttempts
    /\ state[t].refined_query \in TweakOutputs

\* C26: Retrieve replaces retrieved_docs by the result for the current query,
\* whatever they held: what Evaluate is handed is exactly the last result, and
\* the documents that reach Respond all come from the last Retrieve of the
\* invocation.
C26_RetrieveReplaces ==
  \A t \in Callers :
    /\ pc[t] = "fetch_docs" \/ state[t].retrieved_docs # <<>> =>
         \A found \in RetrievalResults :
           fetch_docs(state[t], found).retrieved_docs = found
    /\ pc[t] = "evaluate_docs" =>
         /\ LastTurn(trace[t]) = "fetch_docs"
         /\ state[t].retrieved_docs = fetched[t]
    /\ pc[t] = "create_response" =>
         /\ Range(state[t].retrieved_docs) \subseteq Range(fetched[t])
         /\ Len(state[t].retrieved_docs) <= Len(fetched[t])

\* The second retrieval of an invocation found one document, and that one
\* reaches Respond.
C26_Witness ==
  \E t \in Callers :
    /\ pc[t] = "create_response"
    /\ CountNode(trace[t], "fetch_docs") = 2
    /\ fetched[t] = <<"d2">>
    /\ state[t].retrieved_docs = <<"d2">>

\* C27: refinement_attempts is 0 when an invocation starts, also on a
\* conversation whose previous invocation used up its retries, and from then
\* on it counts the Tweaks of this invocation only: every invocation has the
\* full retry budget.
C27_AttemptsStartAtZero ==
  \A t \in Callers :
    /\ pc[t] \in {"rephrase_query", "classify_topic"} =>
         state[t].refinement_attempts = 0
    /\ pc[t] \in Nodes \cup {"END"} =>
         state[t].refinement_attempts = CountNode(trace[t], "tweak_question")

\* An invocation starts on a conversation whose last invocation fell back
\* after MaxAttempts refinements.
C27_Witness ==
  \E t \in Callers :
    /\ pc[t] = "rephrase_query"
    /\ baseline[t] # <<>>
    /\ LastTurn(baseline[t]).content = FallbackMessage
    /\ state[t].refinement_attempts = 0

\* C28: the nodes of an invocation run in graph order: Rephrase first and
\* once, Classify right after it and before any Retrieve, every Retrieve
\* immediately followed by Evaluate, Reject only directly after Classify,
\* Respond and Fallback only directly after Evaluate, and nothing after a
\* terminal node.
C28_GraphOrder ==
  \A t \in Callers :
    LET tr == trace[t]
    IN /\ pc[t] = "rephrase_query" <=> pc[t] \in Nodes /\ tr = <<>>
       /\ pc[t] \in Nodes /\ tr # <<>> =>
            /\ LastTurn(tr) = "rephrase_query" => pc[t] = "classify_topic"
            /\ LastTurn(tr) = "fetch_docs" => pc[t] = "evaluate_docs"
            /\ pc[t] = "reject_off_topic" => LastTurn(tr) = "classify_topic"
            /\ pc[t] \in {"create_response", "fallback_response"} =>
                 LastTurn(tr) = "evaluate_docs"
       /\ \A i \in DOMAIN tr :
            /\ tr[i] = "rephrase_query" <=> i = 1
            /\ i = 2 => tr[i] = "classify_topic"
            /\ tr[i] = "fetch_docs" => i > 2
            /\ i > 1 /\ tr[i - 1] = "fetch_docs" => tr[i] = "evaluate_docs"
            /\ tr[i] = "reject_off_topic" => tr[i - 1] = "classify_topic"
            /\ tr[i] \in {"create_response", "fallback_response"} =>
                 tr[i - 1] = "evaluate_docs"
            /\ tr[i] \in TerminalNodes => i = Len(tr) /\ pc[t] = "END"

\* An invocation went once round the retry loop and ended in Respond.
C28_Witness ==
  \E t \in Callers :
    /\ pc[t] = "END"
    /\ trace[t] = <<"rephrase_query", "classify_topic", "fetch_docs", "evaluate_docs",
                    "tweak_question", "fetch_docs", "evaluate_docs", "create_response">>

\* C29: the persisted turns change only in the commit of a terminal node, and
\* then only under the committing invocation's thread_id: every step of a
\* non-terminal node, also one that fails or is cancelled, leaves the memory
\* as it is, and no step empties the entry of a thread_id.
C29_MemoryChangesOnlyAtCommit ==
  [][/\ memory' # memory =>
          \E t \in Callers :
            /\ pc[t] \in TerminalNodes /\ pc'[t] = "END"
            /\ \A c \in ThreadIds : memory'[c] # memory[c] => c = thread_id[t]
     /\ \A t \in Callers :
          pc[t] \in Nodes \ TerminalNodes /\ pc'[t] # pc[t] => memory' = memory
     /\ DOMAIN memory' = DOMAIN memory
     /\ \A c \in ThreadIds : memory[c] # <<>> => memory'[c] # <<>>
    ]_vars

\* An invocation is between Evaluate and Tweak on a conversation with a
\* history, which is as it loaded it.
C29_Witness ==
  \E t \in Callers :
    /\ pc[t] = "tweak_question"
    /\ baseline[t] # <<>>
    /\ memory[thread_id[t]] = baseline[t]

\* C30: in every reachable state the persisted turns of every thread_id have
\* even length and alternate user, assistant, user, assistant, ..., each user
\* turn followed by the assistant turn of the same invocation.
C30_PersistedTurnsAlternate ==
  \A c \in ThreadIds :
    LET turns == MemoryGet(memory, c)
    IN /\ Len(turns) % 2 = 0
       /\ \A i \in DOMAIN turns :
            /\ turns[i].role = IF i % 2 = 1 THEN "user" ELSE "assistant"
            /\ i % 2 = 1 => turns[i + 1].invocation = turns[i].invocation

\* Two invocations have committed to one conversation, one after the other.
C30_Witness ==
  \E c \in ThreadIds :
    /\ Len(memory[c]) = 2 * MaxInvocations
    /\ memory[c][1].invocation # memory[c][3].invocation

\* ------------------------------------------------------------ web client: properties
\* The ids of a list of papers.
Ids(papers) == {papers[i].id : i \in DOMAIN papers}

\* The call is a send in a conversation the server knows, and this step is
\* its successful end.
SucceedsInExisting(call) ==
  /\ call.awaits = "query"
  /\ ~NoConversationId(call)
  /\ call \notin inflight'
  /\ last' = Event("query", call.n, TRUE)

\* C31: when handleSend succeeds in a conversation with a non-empty id, the
\* store's currentConversation.messages is the list shown before the send
\* followed by the new user message and the assistant message; nothing shown
\* before the send is dropped or replaced.
C31_SendAppendsToShown ==
  [][\A call \in inflight :
       SucceedsInExisting(call) =>
         /\ chat'.currentConversation # Null
         /\ chat'.currentConversation[1].messages =
              call.currentConversation[1].messages \o
                <<call.tempUserMessage,
                  AssistantMessage(call.n, call.currentConversation[1].id)>>]_vars

\* C32: a response that arrives after startNewChat does not change the store:
\* once startNewChat has set currentConversation to null it stays null until
\* the next handleSend passes its guard.  (Only startNewChat stores null, and
\* before the first send no response is awaited.)
C32_NewChatStaysEmpty ==
  [][(chat.currentConversation = Null /\ sends' = sends) =>
       chat'.currentConversation = Null]_vars

\* C33: at most one chat query of the Dashboard is in flight at any time;
\* handleSend does nothing while isLoading is true or the trimmed input is
\* empty; and isLoading is false again once the send has ended, whether its
\* requests resolved or rejected.
C33_OneQueryInFlight ==
  /\ [](/\ Cardinality(inflight) <= 1
        /\ (\A call \in inflight : ~call.mounted) => ~isLoading)
  /\ [][(last'.op = "handleSend" /\ (isLoading \/ trim(input) = <<>>)) =>
          UNCHANGED <<chat, input, isLoading, sends, inflight>>]_vars

\* C34: for either authentication state and any requested path the router
\* leaves no path twice and stops after fewer redirects than there are paths;
\* Dashboard and Papers are on screen only when isAuthenticated is true,
\* Login and Register only when it is false.
C34_RoutingSettles ==
  /\ \A i, j \in DOMAIN redirected : i # j => redirected[i] # redirected[j]
  /\ location \notin Range(redirected)
  /\ Len(redirected) < Cardinality(Paths)
  /\ Rendered(isAuthenticated, location) \in {"Dashboard", "Papers"} => isAuthenticated
  /\ Rendered(isAuthenticated, location) \in {"Login", "Register"} => ~isAuthenticated

\* A signed-out request of an unknown path has settled on the Login page
\* after two redirects.
C34_Witness ==
  /\ ~isAuthenticated
  /\ redirected = <<"/other", "/">>
  /\ Rendered(isAuthenticated, location) = "Login"

\* C35: in a selection built by togglePaperSelection calls from the empty
\* selection no two papers share an id, a paper is selected exactly when it
\* was toggled an odd number of times, toggling a paper twice gives back the
\* same set of selected ids, and a call leaves every other field of the store
\* as it was.
C35_ToggleSelection ==
  /\ \A i, j \in DOMAIN chat.selectedPapers :
       i # j => chat.selectedPapers[i].id # chat.selectedPapers[j].id
  /\ \A id \in PaperIds : (id \in Ids(chat.selectedPapers)) <=> (toggled[id] = 1)
  /\ \A paper, again \in PaperList :
       paper.id = again.id =>
         Ids(togglePaperSelection(togglePaperSelection(chat, paper), again).selectedPapers)
           = Ids(chat.selectedPapers)
  /\ \A paper \in PaperList :
       LET after == togglePaperSelection(chat, paper)
       IN /\ after.currentConversation = chat.currentConversation
          /\ after.conversations = chat.conversations
          /\ after.isStreaming = chat.isStreaming

\* A toggle has just run on a store that holds a conversation and one paper
\* is selected.
C35_Witness ==
  /\ last.op = "togglePaperSelection"
  /\ chat.currentConversation # Null
  /\ Ids(chat.selectedPapers) = {"p2"}
  /\ toggled = [id \in PaperIds |-> IF id = "p2" THEN 1 ELSE 0]

\* C36: on the Papers page the name of every file whose upload is in progress
\* is in uploadingFiles, also when drops overlap or files share a name;
\* uploadingFiles is empty once every upload has settled; and after a failed
\* upload the drop goes on with its next file.
C36_UploadingFilesTracksUploads ==
  /\ [](/\ \A drop \in drops :
             drop.mounted => drop.files[drop.at] \in Range(uploadingFiles)
        /\ drops = {} => uploadingFiles = <<>>)
  /\ [][\A drop \in drops :
          (last' = Event("upload", drop.d, FALSE) /\ drop \notin drops'
             /\ drop.at < Len(drop.files)) =>
            \E next \in drops' : next.d = drop.d /\ next.at = drop.at + 1]_vars

====
